---------------------------- MODULE Spec2Model ----------------------------
(***************************************************************************)
(* Model of the statistics engine of jackpot-iq-updater                    *)
(* (src/function/calculate_stats.py).  One behaviour is one call of        *)
(* calculate_stats_for_type: the tabulation loop, the default fill, the    *)
(* two optimizer searches and the final sort and assembly.                 *)
(*                                                                         *)
(* A Python dict (insertion ordered) is a sequence of <<key, count>>       *)
(* pairs without repeated keys; keys of the frequency tables are the       *)
(* decimal strings str(num).  A value that may be None is a sequence of    *)
(* length 0 (None) or 1 (the value).                                       *)
(***************************************************************************)
EXTENDS Integers, Sequences, FiniteSets, TLC

\* ------------------------------------------------------------------ bounds

\* Longest draw list given to calculate_stats_for_type.
MaxDraws == 3

\* Largest number that str()/int() are tabulated for.
MaxKey == 70

\* ------------------------------------------------------- python primitives

None == <<>>

Some(x) == <<x>>

IsNone(x) == x = <<>>

Val(x) == x[1]

\* str(n) of an integer.
str(n) == ToString(n)

NumRange == 0..MaxKey

\* int(s) of a decimal string: the inverse of str on the tabulated range.
IntTable == [s \in {str(n) : n \in NumRange} |-> CHOOSE n \in NumRange : str(n) = s]

int(s) == IntTable[s]

\* range(a, b) as the sequence a, a+1, .., b-1.
Range(a, b) == [j \in 1..(IF b > a THEN b - a ELSE 0) |-> a + j - 1]

\* ------------------------------------------------------ ordered dictionary

\* k in d
DictHas(d, k) == \E j \in 1..Len(d) : d[j][1] = k

DictIndex(d, k) == CHOOSE j \in 1..Len(d) : d[j][1] = k

\* d.get(k, default)
DictGet(d, k, default) == IF DictHas(d, k) THEN d[DictIndex(d, k)][2] ELSE default

DictKeys(d) == {d[j][1] : j \in 1..Len(d)}

\* d[k] += 1 on a defaultdict(int): a missing key is inserted at the end.
DictIncr(d, k) ==
    IF DictHas(d, k)
    THEN [d EXCEPT ![DictIndex(d, k)] = <<k, d[DictIndex(d, k)][2] + 1>>]
    ELSE Append(d, <<k, 1>>)

RECURSIVE SumRange(_, _, _)
\* The counts of d[lo..hi] added up, by halving the range.
SumRange(d, lo, hi) ==
    IF lo > hi THEN 0
    ELSE IF lo = hi THEN d[lo][2]
    ELSE LET mid == (lo + hi) \div 2
         IN  SumRange(d, lo, mid) + SumRange(d, mid + 1, hi)

\* sum(d.values())
SumValues(d) == SumRange(d, 1, Len(d))

\* ------------------------------------------------------------------ sorting

\* The largest count of a list of <<number, count>> pairs (0 when empty).
MaxCount(items) ==
    IF items = <<>> THEN 0
    ELSE LET counts == {items[j][2] : j \in 1..Len(items)}
         IN  CHOOSE c \in counts : \A e \in counts : e <= c

RECURSIVE CountsFrom(_, _)
\* The items of count c, then those of count c - 1, .., down to count 0, each
\* group in the order of the list.
CountsFrom(items, c) ==
    IF c < 0 THEN <<>>
    ELSE SelectSeq(items, LAMBDA item : item[2] = c) \o CountsFrom(items, c - 1)

\* list.sort(key=count, reverse=True) / sorted(.., key=count, reverse=True):
\* Python's sort is stable, also with reverse=True, so items of equal count
\* keep the order they had.  Counts are never negative.
SortByCountDesc(items) == CountsFrom(items, MaxCount(items))

InsertAsc(sorted, x) ==
    LET p == IF \E j \in 1..Len(sorted) : sorted[j] > x
             THEN CHOOSE j \in 1..Len(sorted) :
                     /\ sorted[j] > x
                     /\ \A h \in 1..(j - 1) : sorted[h] <= x
             ELSE Len(sorted) + 1
    IN  SubSeq(sorted, 1, p - 1) \o <<x>> \o SubSeq(sorted, p, Len(sorted))

RECURSIVE SortAscFrom(_, _)
SortAscFrom(sorted, rest) ==
    IF rest = <<>> THEN sorted
    ELSE SortAscFrom(InsertAsc(sorted, Head(rest)), Tail(rest))

\* sorted(list of integers)
Sorted(xs) == SortAscFrom(<<>>, xs)

Reverse(xs) == [j \in 1..Len(xs) |-> xs[Len(xs) + 1 - j]]

\* Mutant of sort_frequency_dict: an ascending sort whose result is reversed,
\* which turns the order of the keys of equal count around.
SortAscendingReversed(freq_dict) == CountsFrom(Reverse(freq_dict), MaxCount(freq_dict))

\* sort_frequency_dict(freq_dict)
sort_frequency_dict(freq_dict) == SortByCountDesc(freq_dict)

\* ------------------------------------------------------------------- inputs

\* The two calls made by calculate_lottery_stats, and the boundary variant
\* (max_regular = 5) as a third call of calculate_stats_for_type.
Variants ==
    { [lottery_type |-> "mega-millions", max_regular |-> 70, max_special |-> 25],
      [lottery_type |-> "powerball", max_regular |-> 69, max_special |-> 26],
      [lottery_type |-> "boundary", max_regular |-> 5, max_special |-> 3] }

\* Draw records as read from the draws file: date, numbers, specialBall.
DrawPool ==
    { [date |-> "2024-01-02", numbers |-> <<1, 2, 3, 4, 5>>, specialBall |-> Some(2)],
      [date |-> "2024-01-05", numbers |-> <<5, 4, 3, 2, 1>>, specialBall |-> Some(2)],
      [date |-> "2024-01-09", numbers |-> <<6, 1, 3, 4, 5>>, specialBall |-> Some(0)],
      [date |-> "2024-01-12", numbers |-> <<7, 1, 3, 4, 5>>, specialBall |-> Some(3)],
      [date |-> "2024-01-16", numbers |-> <<1, 2, 3, 4>>, specialBall |-> Some(2)],
      [date |-> "2024-01-19", numbers |-> <<1, 2, 3, 4, 5>>, specialBall |-> None] }

DrawLists == UNION {[1..n -> DrawPool] : n \in 0..MaxDraws}

\* Draw k of the long history: position q holds the number of rank
\* (k + 5 - q) \div 5 of its own list of numbers, so that consecutive draws
\* differ at one position, which moves round the five positions.
LongDraw(k) ==
    [date |-> "2024-02-02",
     numbers |-> [q \in 1..5 |-> ((3 * ((k + 5 - q) \div 5) + 14 * (q - 1)) % 69) + 1],
     specialBall |-> Some((k % 25) + 1)]

\* A history of 104 records, each of 5 different numbers of 1..69 and a
\* special number of 1..25: draw 0 five times, then the draws 1..99.
LongHistory ==
    [j \in 1..104 |->
        IF j <= 4 THEN [LongDraw(0) EXCEPT !.specialBall = Some(j)] ELSE LongDraw(j - 5)]

RegularNumbers ==
    << <<3, 4, 5, 8, 11>>, <<3, 4, 5, 8, 11>>, <<3, 4, 5, 8, 11>>, <<3, 4, 5, 8, 11>>,
       <<2, 4, 5, 8, 11>>, <<2, 3, 5, 8, 11>>, <<2, 3, 5, 8, 11>>, <<3, 2, 5, 8, 11>>,
       <<3, 2, 5, 8, 11>>, <<3, 2, 5, 8, 11>>, <<3, 2, 5, 8, 11>>, <<3, 2, 5, 8, 11>>,
       <<2, 3, 6, 8, 11>>, <<2, 3, 6, 9, 11>>, <<2, 3, 6, 9, 12>>, <<3, 1, 6, 9, 12>>,
       <<2, 1, 6, 9, 12>>, <<2, 1, 7, 9, 12>>, <<2, 1, 7, 10, 12>>, <<2, 1, 7, 10, 13>> >>

\* A history of 20 records in which number 1 is drawn at the second position
\* only, and the first position only ever holds 3 or 2.
RepeatHistory ==
    [j \in 1..Len(RegularNumbers) |->
        [date |-> "2024-03-01", numbers |-> RegularNumbers[j], specialBall |-> Some(2)]]

\* A history of 65 records: the numbers 1, 2, 3, 4 with each of 5..69 in
\* turn, so that every number of 1..69 has been drawn.
FullHistory ==
    [j \in 1..65 |->
        [date |-> "2024-04-01",
         numbers |-> <<1, 2, 3, 4, j + 4>>,
         specialBall |-> Some(((j - 1) % 25) + 1)]]

\* The 65 draws with the special numbers 1..26 in turn.
PowerballHistory ==
    [j \in 1..65 |-> [FullHistory[j] EXCEPT !.specialBall = Some(((j - 1) % 26) + 1)]]

\* A draws file of three records, the first with four numbers only.
ShortHistory ==
    << [date |-> "2024-01-16", numbers |-> <<1, 2, 3, 4>>, specialBall |-> Some(2)],
       [date |-> "2024-01-02", numbers |-> <<1, 2, 3, 4, 5>>, specialBall |-> Some(2)],
       [date |-> "2024-01-05", numbers |-> <<5, 4, 3, 2, 1>>, specialBall |-> Some(2)] >>

\* The contents of data/mm.json and of data/pb.json that
\* calculate_lottery_stats is run on.
MegaMillionsFiles == {ShortHistory, FullHistory}

PowerballFiles == {ShortHistory, PowerballHistory}

\* The draw lists calculate_stats_for_type is called with.
Histories == DrawLists \cup {LongHistory, RepeatHistory, FullHistory}

PosKeys == {str(p) : p \in 0..5}

\* -------------------------------------------------------------------- state

VARIABLES
    pc,                         \* position in calculate_stats_for_type
    lottery_type, max_regular, max_special, draws,      \* the arguments
    next_draw,                  \* index of the next record of the for loop
    frequency, frequency_at_position, special_ball_frequency,
    existing_combinations, draws_with_missing_data,
    optimized, attemptsA,       \* find_optimized_numbers: optimized, attempts
    optimized_by_position,      \* its result, None before it returns
    optimized_regular, attemptsB,   \* find_optimized_numbers_by_general_frequency
    optimized_by_general_frequency, \* its result, None before it returns
    stats,                      \* the returned dict, None before the return
    call,                       \* position in calculate_lottery_stats
    pb_draws,                   \* the draws read from pb_input
    mm_stats, pb_stats,         \* the two statistics objects, None before the call
    mm_verified, pb_verified,   \* the results of verify_frequency_stats
    mm_output, pb_output,       \* the contents of the two files, None before written
    returned,                   \* the value calculate_lottery_stats returns
    existing_draws,             \* save_to_json: the list stored in the file
    new_draws,                  \* its argument draws at the latest call
    new_draws_added,            \* the value it returned, None before a call
    main_pc,                    \* position in main
    bucket,                     \* the blobs of the bucket, None while absent
    mm_file, pb_file,           \* the local files, None while absent
    latest_draws,               \* main's latest_draws, None before line 34
    raised                      \* the exception that left main, None if none

vars == <<pc, lottery_type, max_regular, max_special, draws, next_draw,
          frequency, frequency_at_position, special_ball_frequency,
          existing_combinations, draws_with_missing_data,
          optimized, attemptsA, optimized_by_position,
          optimized_regular, attemptsB, optimized_by_general_frequency, stats>>

args == <<lottery_type, max_regular, max_special, draws>>

tables == <<frequency, frequency_at_position, special_ball_frequency,
            existing_combinations>>

searchA == <<optimized, attemptsA, optimized_by_position>>

searchB == <<optimized_regular, attemptsB, optimized_by_general_frequency>>

driver == <<call, pb_draws, mm_stats, pb_stats, mm_verified, pb_verified,
            mm_output, pb_output, returned>>

scraper == <<existing_draws, new_draws, new_draws_added>>

runner == <<main_pc, bucket, mm_file, pb_file, latest_draws, raised>>

\* The locals of calculate_stats_for_type at its entry.
Entry ==
    /\ pc = "tabulate"
    /\ next_draw = 1
    /\ frequency = <<>>
    /\ frequency_at_position = [p \in PosKeys |-> <<>>]
    /\ special_ball_frequency = <<>>
    /\ existing_combinations = {}
    /\ draws_with_missing_data = 0
    /\ optimized = <<>>
    /\ attemptsA = 0
    /\ optimized_by_position = None
    /\ optimized_regular = <<>>
    /\ attemptsB = 0
    /\ optimized_by_general_frequency = None
    /\ stats = None

\* calculate_lottery_stats before it has read anything.
NotCalled ==
    /\ pb_draws = <<>>
    /\ mm_stats = None
    /\ pb_stats = None
    /\ mm_verified = None
    /\ pb_verified = None
    /\ mm_output = None
    /\ pb_output = None
    /\ returned = None

\* save_to_json has not been called.
NotSaving ==
    /\ existing_draws = <<>>
    /\ new_draws = <<>>
    /\ new_draws_added = None

\* main has not been started.
NotRunning ==
    /\ main_pc = "none"
    /\ bucket = [mm |-> None, pb |-> None, mm_stats |-> None, pb_stats |-> None]
    /\ mm_file = None
    /\ pb_file = None
    /\ latest_draws = None
    /\ raised = None

\* One call of calculate_stats_for_type on its own.
Init ==
    /\ \E v \in Variants :
         /\ lottery_type = v.lottery_type
         /\ max_regular = v.max_regular
         /\ max_special = v.max_special
    /\ draws \in Histories
    /\ Entry
    /\ call = "none"
    /\ NotCalled
    /\ NotSaving
    /\ NotRunning

\* --------------------------------------------------------------- tabulation

\* Mutant of MissingData: the length of numbers is not tested.
MissingDataSpecialOnly(draw) == IsNone(draw.specialBall)

\* The skip test of the loop: len(numbers) != 5 or special_ball is None.
MissingData(draw) == Len(draw.numbers) # 5 \/ IsNone(draw.specialBall)

RECURSIVE CountNumbers(_, _)
\* for num in numbers: frequency[str(num)] += 1
CountNumbers(freq, numbers) ==
    IF numbers = <<>> THEN freq
    ELSE CountNumbers(DictIncr(freq, str(Head(numbers))), Tail(numbers))

\* Mutant of CountPositions: the bound of the position test is 4.
CountPositionsFirstFour(fap, numbers) ==
    [p \in PosKeys |->
        IF int(p) + 1 <= Len(numbers) /\ int(p) < 4
        THEN DictIncr(fap[p], str(numbers[int(p) + 1]))
        ELSE fap[p]]

\* for i, num in enumerate(numbers): if i < 5: frequency_at_position[str(i)][str(num)] += 1
CountPositions(fap, numbers) ==
    [p \in PosKeys |->
        IF int(p) + 1 <= Len(numbers) /\ int(p) < 5
        THEN DictIncr(fap[p], str(numbers[int(p) + 1]))
        ELSE fap[p]]

\* Mutant of Combination: the numbers are not sorted.
CombinationUnsorted(draw) == draw.numbers \o <<Val(draw.specialBall)>>

\* tuple(sorted(numbers) + [special_ball])
Combination(draw) == Sorted(draw.numbers) \o <<Val(draw.specialBall)>>

\* if special_ball: (an integer is true when it is not 0)
Truthy(special_ball) == special_ball # 0

SkipDraw ==
    /\ pc = "tabulate"
    /\ next_draw <= Len(draws)
    /\ MissingData(draws[next_draw])
    /\ draws_with_missing_data' = draws_with_missing_data + 1
    /\ next_draw' = next_draw + 1
    /\ UNCHANGED <<scraper, runner, driver, pc, args, tables, searchA, searchB, stats>>

CountDraw ==
    /\ pc = "tabulate"
    /\ next_draw <= Len(draws)
    /\ ~MissingData(draws[next_draw])
    /\ LET draw == draws[next_draw]
           special_ball == Val(draw.specialBall)
           counted == CountPositions(frequency_at_position, draw.numbers)
       IN  /\ existing_combinations' = existing_combinations \cup {Combination(draw)}
           /\ frequency' = CountNumbers(frequency, draw.numbers)
           /\ IF Truthy(special_ball)
              THEN /\ special_ball_frequency' =
                        DictIncr(special_ball_frequency, str(special_ball))
                   /\ frequency_at_position' =
                        [counted EXCEPT !["5"] = DictIncr(counted["5"], str(special_ball))]
              ELSE /\ special_ball_frequency' = special_ball_frequency
                   /\ frequency_at_position' = counted
    /\ next_draw' = next_draw + 1
    /\ UNCHANGED <<scraper, runner, driver, pc, args, draws_with_missing_data, searchA, searchB, stats>>

\* for i in range(1, hi + 1): if str(i) not in d: d[str(i)] = 0
\* The missing numbers are appended in ascending order with count 0.
FillDefault(d, hi) ==
    LET missing == SelectSeq(Range(1, hi + 1), LAMBDA i : ~DictHas(d, str(i)))
    IN  d \o [j \in 1..Len(missing) |-> <<str(missing[j]), 0>>]

\* The end of the loop and the default fill of the two tables.
FillDefaults ==
    /\ pc = "tabulate"
    /\ next_draw > Len(draws)
    /\ frequency' = FillDefault(frequency, max_regular)
    /\ special_ball_frequency' = FillDefault(special_ball_frequency, max_special)
    /\ pc' = "position"
    /\ UNCHANGED <<scraper, runner, driver, args, next_draw, frequency_at_position, existing_combinations,
                   draws_with_missing_data, searchA, searchB, stats>>

\* ---------------------------------------------------------------- optimizer

\* [(int(num), freq) for num, freq in d.items()]
IntItems(d) == [j \in 1..Len(d) |-> <<int(d[j][1]), d[j][2]>>]

\* position_frequencies[pos], pos in 0..4: the list of (number, count) of the
\* position, sorted by count, descending.
position_frequencies(pos) == SortByCountDesc(IntItems(frequency_at_position[str(pos)]))

\* The sorted (number, count) list of the special ball table.
special_freq_list == SortByCountDesc(IntItems(special_ball_frequency))

\* Mutant of best_special_ball: the last entry of the list is taken.
LastSpecialBall ==
    IF special_freq_list # <<>> THEN special_freq_list[Len(special_freq_list)][1] ELSE 1

\* special_freq_list[0][0] if special_freq_list else 1
best_special_ball == IF special_freq_list # <<>> THEN special_freq_list[1][1] ELSE 1

\* {tuple(sorted(combo[:5])) for combo in existing_combinations}
existing_regular_sets == {Sorted(SubSeq(combo, 1, 5)) : combo \in existing_combinations}

max_attempts == 100

\* [num for num, _ in freq_list]
Numbers(freq_list) == [j \in 1..Len(freq_list) |-> freq_list[j][1]]

ListHas(xs, x) == \E j \in 1..Len(xs) : xs[j] = x

\* xs.index(x): the first index (counted from 1) holding x.
ListIndex(xs, x) == CHOOSE j \in 1..Len(xs) : xs[j] = x /\ \A h \in 1..(j - 1) : xs[h] # x

ListSet(xs) == {xs[j] : j \in 1..Len(xs)}

\* The most frequent number at each of the five positions, 1 where a position
\* has no data.
BaselineByPosition ==
    [p \in 1..5 |->
        IF position_frequencies(p - 1) # <<>> THEN position_frequencies(p - 1)[1][1] ELSE 1]

\* for i in range(1, 70): if i not in used_numbers: return i
FirstUnused(used_numbers) ==
    LET free == {i \in 1..69 : i \notin used_numbers}
    IN  IF free = {} THEN None ELSE Some(CHOOSE i \in free : \A e \in free : i <= e)

\* The value given to optimized[position_to_change] by one pass of the loop.
ReplacementByPosition(opt, position_to_change) ==
    LET freq_list == position_frequencies(position_to_change)
        current_num == opt[position_to_change + 1]
        nums == Numbers(freq_list)
    IN  IF ListHas(nums, current_num)
        THEN LET current_index == ListIndex(nums, current_num) - 1
             IN  IF current_index + 1 < Len(freq_list)
                 THEN freq_list[current_index + 2][1]
                 ELSE IF IsNone(FirstUnused(ListSet(opt))) THEN current_num
                      ELSE Val(FirstUnused(ListSet(opt)))
        ELSE (current_num % 69) + 1

\* Mutant of CollidesByPosition: the candidate is looked up as it stands,
\* without sorting it.
CollidesUnsorted(opt) == opt \in existing_regular_sets

\* Mutant of CollidesByPosition: the candidate is looked up together with the
\* special number among the whole historical combinations.
CollidesFullTuple(opt) == Sorted(opt) \o <<best_special_ball>> \in existing_combinations

\* regular_set in existing_regular_sets, regular_set being
\* tuple(sorted(optimized[:5])).
CollidesByPosition(opt) == Sorted(opt) \in existing_regular_sets

StartByPosition ==
    /\ pc = "position"
    /\ optimized' = BaselineByPosition
    /\ attemptsA' = 0
    /\ pc' = "search_position"
    /\ UNCHANGED <<scraper, runner, driver, args, next_draw, tables, draws_with_missing_data,
                   optimized_by_position, searchB, stats>>

\* Mutant of StepByPosition: the attempt does not count itself.
StepByPositionWithoutCounting ==
    /\ pc = "search_position"
    /\ CollidesByPosition(optimized)
    /\ attemptsA < max_attempts
    /\ LET position_to_change == attemptsA % 5
       IN  optimized' = [optimized EXCEPT ![position_to_change + 1] =
                            ReplacementByPosition(optimized, position_to_change)]
    /\ UNCHANGED <<scraper, runner, driver, pc, args, next_draw, tables, draws_with_missing_data,
                   attemptsA, optimized_by_position, searchB, stats>>

StepByPosition ==
    /\ pc = "search_position"
    /\ CollidesByPosition(optimized)
    /\ attemptsA < max_attempts
    /\ LET position_to_change == attemptsA % 5
       IN  optimized' = [optimized EXCEPT ![position_to_change + 1] =
                            ReplacementByPosition(optimized, position_to_change)]
    /\ attemptsA' = attemptsA + 1
    /\ UNCHANGED <<scraper, runner, driver, pc, args, next_draw, tables, draws_with_missing_data,
                   optimized_by_position, searchB, stats>>

ReturnByPosition ==
    /\ pc = "search_position"
    /\ ~(CollidesByPosition(optimized) /\ attemptsA < max_attempts)
    /\ optimized_by_position' = Some(Sorted(optimized) \o <<best_special_ball>>)
    /\ pc' = "general"
    /\ UNCHANGED <<scraper, runner, driver, args, next_draw, tables, draws_with_missing_data,
                   optimized, attemptsA, searchB, stats>>

\* freq_list of find_optimized_numbers_by_general_frequency.
general_freq_list == SortByCountDesc(IntItems(frequency))

\* special_freq_list of find_optimized_numbers_by_general_frequency, which
\* sorts the special ball table itself.
general_special_freq_list == SortByCountDesc(IntItems(special_ball_frequency))

\* best_special_ball of find_optimized_numbers_by_general_frequency.
general_best_special_ball ==
    IF general_special_freq_list # <<>> THEN general_special_freq_list[1][1] ELSE 1

\* sorted([freq_list[i][0] for i in range(min(5, len(freq_list)))])
FirstFive(freq_list) ==
    Sorted([j \in 1..(IF Len(freq_list) < 5 THEN Len(freq_list) ELSE 5) |-> freq_list[j][1]])

\* next((f for n, f in freq_list if n == num), 0)
NumFreq(freq_list, num) ==
    IF ListHas(Numbers(freq_list), num)
    THEN freq_list[ListIndex(Numbers(freq_list), num)][2]
    ELSE 0

\* Mutant of LeastFrequentIdx: among the numbers of least count the last
\* index is taken.
LeastFrequentIdxLast(opt, freq_list) ==
    CHOOSE i \in 1..Len(opt) :
        /\ \A h \in 1..Len(opt) : NumFreq(freq_list, opt[i]) <= NumFreq(freq_list, opt[h])
        /\ \A h \in (i + 1)..Len(opt) : NumFreq(freq_list, opt[h]) > NumFreq(freq_list, opt[i])

\* The first index (counted from 1) of the candidate whose number has the
\* least count: the scan replaces its choice only on a strictly smaller count.
LeastFrequentIdx(opt, freq_list) ==
    CHOOSE i \in 1..Len(opt) :
        /\ \A h \in 1..Len(opt) : NumFreq(freq_list, opt[i]) <= NumFreq(freq_list, opt[h])
        /\ \A h \in 1..(i - 1) : NumFreq(freq_list, opt[h]) > NumFreq(freq_list, opt[i])

\* set(range(1, max_regular + 1)) - set(optimized_regular)
AvailableNumbers(opt) == (1..max_regular) \ ListSet(opt)

\* Whether the pass takes next(iter(available_numbers)).
TakesAvailable(opt, att) ==
    /\ att < Len(general_freq_list) - 5
    /\ ~(5 + att < Len(general_freq_list))
    /\ AvailableNumbers(opt) # {}

\* Mutant of ReplaceByGeneralFrequency: the next best number is taken one
\* place too early in the list.
ReplaceByGeneralFrequencyOffByOne(opt, att, new_number) ==
    LET freq_list == general_freq_list
    IN  IF att < Len(freq_list) - 5
        THEN LET next_best_index == 5 + att
             IN  IF next_best_index < Len(freq_list)
                 THEN Sorted([opt EXCEPT ![LeastFrequentIdx(opt, freq_list)] =
                                  freq_list[next_best_index][1]])
                 ELSE IF AvailableNumbers(opt) # {}
                      THEN Sorted([opt EXCEPT ![LeastFrequentIdx(opt, freq_list)] = new_number])
                      ELSE Sorted(opt)
        ELSE FirstFive(freq_list)

\* One pass of the replacement loop on the candidate opt at attempt att;
\* new_number is the element the iteration of available_numbers yields.
ReplaceByGeneralFrequency(opt, att, new_number) ==
    LET freq_list == general_freq_list
    IN  IF att < Len(freq_list) - 5
        THEN LET next_best_index == 5 + att
             IN  IF next_best_index < Len(freq_list)
                 THEN Sorted([opt EXCEPT ![LeastFrequentIdx(opt, freq_list)] =
                                  freq_list[next_best_index + 1][1]])
                 ELSE IF AvailableNumbers(opt) # {}
                      THEN Sorted([opt EXCEPT ![LeastFrequentIdx(opt, freq_list)] = new_number])
                      ELSE Sorted(opt)
        ELSE FirstFive(freq_list)

\* Mutant of CollidesByGeneralFrequency: the candidate is looked up together
\* with the special number among the whole historical combinations.
CollidesGeneralFullTuple(opt) ==
    opt \o <<general_best_special_ball>> \in existing_combinations

\* regular_set in existing_regular_sets, regular_set being
\* tuple(optimized_regular).
CollidesByGeneralFrequency(opt) == opt \in existing_regular_sets

StartByGeneralFrequency ==
    /\ pc = "general"
    /\ optimized_regular' = FirstFive(general_freq_list)
    /\ attemptsB' = 0
    /\ pc' = "search_general"
    /\ UNCHANGED <<scraper, runner, driver, args, next_draw, tables, draws_with_missing_data,
                   searchA, optimized_by_general_frequency, stats>>

\* The pass at attempt att runs to its end: the inner
\* "while len(used_numbers) < 5" of the last branch ends only when the list
\* holds five numbers; the other loops of a pass are for loops.
PassEnds(att) == (att >= Len(general_freq_list) - 5) => (Len(general_freq_list) >= 5)

\* Mutant of StepByGeneralFrequency: the pass does not count itself.
StepWithoutCounting ==
    /\ pc = "search_general"
    /\ CollidesByGeneralFrequency(optimized_regular)
    /\ attemptsB < max_attempts
    /\ PassEnds(attemptsB)
    /\ \E new_number \in (IF TakesAvailable(optimized_regular, attemptsB)
                          THEN AvailableNumbers(optimized_regular) ELSE {0}) :
          optimized_regular' =
              ReplaceByGeneralFrequency(optimized_regular, attemptsB, new_number)
    /\ UNCHANGED <<scraper, runner, driver, pc, args, next_draw, tables, draws_with_missing_data,
                   searchA, attemptsB, optimized_by_general_frequency, stats>>

\* One pass of the loop; with a pass that never ends there is no step.
StepByGeneralFrequency ==
    /\ pc = "search_general"
    /\ CollidesByGeneralFrequency(optimized_regular)
    /\ attemptsB < max_attempts
    /\ PassEnds(attemptsB)
    /\ \E new_number \in (IF TakesAvailable(optimized_regular, attemptsB)
                          THEN AvailableNumbers(optimized_regular) ELSE {0}) :
          optimized_regular' =
              ReplaceByGeneralFrequency(optimized_regular, attemptsB, new_number)
    /\ attemptsB' = attemptsB + 1
    /\ UNCHANGED <<scraper, runner, driver, pc, args, next_draw, tables, draws_with_missing_data,
                   searchA, optimized_by_general_frequency, stats>>

ReturnByGeneralFrequency ==
    /\ pc = "search_general"
    /\ ~(CollidesByGeneralFrequency(optimized_regular) /\ attemptsB < max_attempts)
    /\ optimized_by_general_frequency' =
          Some(optimized_regular \o <<general_best_special_ball>>)
    /\ pc' = "sort"
    /\ UNCHANGED <<scraper, runner, driver, args, next_draw, tables, draws_with_missing_data,
                   searchA, optimized_regular, attemptsB, stats>>

\* ----------------------------------------------------------------- assembly

\* Mutant of valid_draws: total_draws, without the records skipped.
TotalDrawsUnadjusted == Len(draws)

\* valid_draws = total_draws - draws_with_missing_data
valid_draws == Len(draws) - draws_with_missing_data

Assemble ==
    /\ pc = "sort"
    /\ stats' = Some([type |-> lottery_type,
                      totalDraws |-> valid_draws,
                      frequency |-> sort_frequency_dict(frequency),
                      frequencyAtPosition |->
                          [p \in PosKeys |-> sort_frequency_dict(frequency_at_position[p])],
                      specialBallFrequency |-> sort_frequency_dict(special_ball_frequency),
                      optimizedByPosition |-> Val(optimized_by_position),
                      optimizedByGeneralFrequency |-> Val(optimized_by_general_frequency)])
    /\ pc' = "done"
    /\ UNCHANGED <<scraper, runner, driver, args, next_draw, tables, draws_with_missing_data, searchA, searchB>>

Next ==
    \/ SkipDraw
    \/ CountDraw
    \/ FillDefaults
    \/ StartByPosition
    \/ StepByPosition
    \/ ReturnByPosition
    \/ StartByGeneralFrequency
    \/ StepByGeneralFrequency
    \/ ReturnByGeneralFrequency
    \/ Assemble

Spec == Init /\ [][Next]_vars

\* ------------------------------------------------------ calculate_lottery_stats

\* 1. the sum of the overall frequencies equals totalDraws * 5
CheckFrequencySum(s) == SumValues(s.frequency) = s.totalDraws * 5

\* 2. the sum of the special ball frequencies equals totalDraws
CheckSpecialSum(s) == SumValues(s.specialBallFrequency) = s.totalDraws

\* 3. each position's frequencies sum to totalDraws
CheckPositionSums(s) ==
    \A pos \in 0..5 : SumValues(s.frequencyAtPosition[str(pos)]) = s.totalDraws

\* 4. pos5_freq != special_ball_frequency: two dicts are equal when they have
\* the same keys with the same values.
CheckPositionFive(s) ==
    LET pos5_freq == s.frequencyAtPosition["5"]
    IN  /\ DictKeys(pos5_freq) = DictKeys(s.specialBallFrequency)
        /\ \A k \in DictKeys(pos5_freq) :
              DictGet(pos5_freq, k, 0) = DictGet(s.specialBallFrequency, k, 0)

\* 5. for each number the frequencies at the positions 0-4 add up to the
\* overall frequency
CheckPositionsAddUp(s) ==
    \A j \in 1..Len(s.frequency) :
        LET num == s.frequency[j][1]
            freq == s.frequency[j][2]
        IN  DictGet(s.frequencyAtPosition["0"], num, 0)
              + DictGet(s.frequencyAtPosition["1"], num, 0)
              + DictGet(s.frequencyAtPosition["2"], num, 0)
              + DictGet(s.frequencyAtPosition["3"], num, 0)
              + DictGet(s.frequencyAtPosition["4"], num, 0) = freq

\* 6. no frequency of a position table is greater than the one before it
CheckSorted(s) ==
    \A pos_str \in DOMAIN s.frequencyAtPosition :
        LET pos_freq == s.frequencyAtPosition[pos_str]
        IN  \A j \in 2..Len(pos_freq) : ~(pos_freq[j][2] > pos_freq[j - 1][2])

\* verify_frequency_stats(stats): every check is made, whatever the outcome of
\* the ones before it; the result is False when any of them failed.
verify_frequency_stats(s) ==
    /\ CheckFrequencySum(s)
    /\ CheckSpecialSum(s)
    /\ CheckPositionSums(s)
    /\ CheckPositionFive(s)
    /\ CheckPositionsAddUp(s)
    /\ CheckSorted(s)

\* The two files are read and calculate_stats_for_type is entered for Mega
\* Millions.
LotteryInit ==
    /\ call = "mega-millions"
    /\ draws \in MegaMillionsFiles
    /\ pb_draws \in PowerballFiles
    /\ lottery_type = "mega-millions"
    /\ max_regular = 70
    /\ max_special = 25
    /\ Entry
    /\ mm_stats = None
    /\ pb_stats = None
    /\ mm_verified = None
    /\ pb_verified = None
    /\ mm_output = None
    /\ pb_output = None
    /\ returned = None
    /\ NotSaving
    /\ NotRunning

\* The first call has returned mm_stats; calculate_stats_for_type is entered
\* for Powerball.
CallPowerball ==
    /\ call = "mega-millions"
    /\ pc = "done"
    /\ mm_stats' = stats
    /\ call' = "powerball"
    /\ lottery_type' = "powerball"
    /\ max_regular' = 69
    /\ max_special' = 26
    /\ draws' = pb_draws
    /\ pc' = "tabulate"
    /\ next_draw' = 1
    /\ frequency' = <<>>
    /\ frequency_at_position' = [p \in PosKeys |-> <<>>]
    /\ special_ball_frequency' = <<>>
    /\ existing_combinations' = {}
    /\ draws_with_missing_data' = 0
    /\ optimized' = <<>>
    /\ attemptsA' = 0
    /\ optimized_by_position' = None
    /\ optimized_regular' = <<>>
    /\ attemptsB' = 0
    /\ optimized_by_general_frequency' = None
    /\ stats' = None
    /\ UNCHANGED <<pb_draws, pb_stats, mm_verified, pb_verified, mm_output, pb_output,
                   returned, scraper, runner>>

\* Mutant of VerifyAndSave: the files are written only when both
\* verifications passed, and False is returned otherwise.
VerifyAndSaveIfPassed ==
    /\ call = "powerball"
    /\ pc = "done"
    /\ pb_stats' = stats
    /\ mm_verified' = Some(verify_frequency_stats(Val(mm_stats)))
    /\ pb_verified' = Some(verify_frequency_stats(Val(stats)))
    /\ IF verify_frequency_stats(Val(mm_stats)) /\ verify_frequency_stats(Val(stats))
       THEN /\ mm_output' = mm_stats
            /\ pb_output' = stats
            /\ returned' = Some(TRUE)
       ELSE /\ UNCHANGED <<mm_output, pb_output>>
            /\ returned' = Some(FALSE)
    /\ call' = "returned"
    /\ UNCHANGED <<vars, pb_draws, mm_stats, scraper, runner>>

\* The second call has returned pb_stats; both objects are verified, both
\* files are written and True is returned.
VerifyAndSave ==
    /\ call = "powerball"
    /\ pc = "done"
    /\ pb_stats' = stats
    /\ mm_verified' = Some(verify_frequency_stats(Val(mm_stats)))
    /\ pb_verified' = Some(verify_frequency_stats(Val(stats)))
    /\ mm_output' = mm_stats
    /\ pb_output' = stats
    /\ returned' = Some(TRUE)
    /\ call' = "returned"
    /\ UNCHANGED <<vars, pb_draws, mm_stats, scraper, runner>>

LotteryNext ==
    \/ SkipDraw
    \/ CountDraw
    \/ FillDefaults
    \/ StartByPosition
    \/ StepByPosition
    \/ ReturnByPosition
    \/ StartByGeneralFrequency
    \/ StepByGeneralFrequency
    \/ ReturnByGeneralFrequency
    \/ Assemble
    \/ CallPowerball
    \/ VerifyAndSave

LotterySpec == LotteryInit /\ [][LotteryNext]_<<vars, driver>>

\* --------------------------------------------------------------- properties

Done == pc = "done"

\* The returned statistics object (defined when Done).
Result == Val(stats)

\* A record with exactly 5 numbers and a non-null special number.
Counted(draw) == Len(draw.numbers) = 5 /\ ~IsNone(draw.specialBall)

CountedIndexes == {j \in 1..Len(draws) : Counted(draws[j])}

StrictlyAscending(xs) == \A j \in 1..(Len(xs) - 1) : xs[j] < xs[j + 1]

\* C1: the counts of the emitted overall table add up to totalDraws * 5,
\* totalDraws being the number of records with exactly 5 numbers and a
\* non-null special number.
C1_FrequencySum ==
    Done => /\ Result.totalDraws = Cardinality(CountedIndexes)
            /\ SumValues(Result.frequency) = Result.totalDraws * 5

C1_Witness ==
    /\ Done
    /\ Result.totalDraws >= 2
    /\ Len(draws) > Result.totalDraws

\* C2: the counts of specialBallFrequency add up to totalDraws, and so do
\* the counts of each of the six frequencyAtPosition tables, whatever integer
\* the special number of a counted record is.
C2_SpecialAndPositionSums ==
    Done => /\ SumValues(Result.specialBallFrequency) = Result.totalDraws
            /\ \A p \in PosKeys :
                  SumValues(Result.frequencyAtPosition[p]) = Result.totalDraws

\* Two dicts compare equal: the same keys with the same values, in any order.
SameMapping(d, e) ==
    /\ DictKeys(d) = DictKeys(e)
    /\ \A k \in DictKeys(d) : DictGet(d, k, 0) = DictGet(e, k, 0)

\* C3: frequencyAtPosition["5"] and specialBallFrequency are identical
\* mappings, the never drawn special numbers of 1..max_special included.
C3_PositionFiveIsSpecial ==
    Done => /\ SameMapping(Result.frequencyAtPosition["5"], Result.specialBallFrequency)
            /\ \A n \in 1..max_special :
                  DictHas(Result.frequencyAtPosition["5"], str(n))

\* C4: after tabulation every number of 1..max_regular is a key of the
\* overall table and of each of the five regular per-position tables, and
\* every number of 1..max_special is a key of the special-number table.
C4_EveryNumberPresent ==
    pc \in {"position", "search_position", "general", "search_general", "sort", "done"} =>
        /\ \A n \in 1..max_regular :
              /\ DictHas(frequency, str(n))
              /\ \A p \in 0..4 : DictHas(frequency_at_position[str(p)], str(n))
        /\ \A n \in 1..max_special : DictHas(special_ball_frequency, str(n))

\* C5: for every number of the overall table, its counts at the positions
\* 0..4 (0 where it is not a key) add up to its overall count.
C5_PositionsAddUp ==
    Done => \A k \in DictKeys(Result.frequency) :
               DictGet(Result.frequencyAtPosition["0"], k, 0)
                 + DictGet(Result.frequencyAtPosition["1"], k, 0)
                 + DictGet(Result.frequencyAtPosition["2"], k, 0)
                 + DictGet(Result.frequencyAtPosition["3"], k, 0)
                 + DictGet(Result.frequencyAtPosition["4"], k, 0)
               = DictGet(Result.frequency, k, 0)

C5_Witness ==
    /\ Done
    /\ \E k \in DictKeys(Result.frequency) :
          /\ DictGet(Result.frequency, k, 0) >= 2
          /\ DictGet(Result.frequencyAtPosition["0"], k, 0) >= 1
          /\ DictGet(Result.frequencyAtPosition["1"], k, 0) >= 1

\* The keys a table meets while the draws are tabulated, each with the time
\* it is met: 10 * (index of the draw) + (place in the draw, 6 for the
\* special number).
OccFrequency ==
    {<<10 * e[1] + e[2], str(draws[e[1]].numbers[e[2]])>> : e \in CountedIndexes \X (1..5)}

OccPosition(p) ==
    {<<10 * j + p + 1, str(draws[j].numbers[p + 1])>> : j \in CountedIndexes}

OccSpecial == {<<10 * j + 6, str(Val(draws[j].specialBall))>> : j \in CountedIndexes}

Seen(occ, k) == \E e \in occ : e[2] = k

FirstSeen(occ, k) ==
    LET times == {e[1] : e \in {o \in occ : o[2] = k}}
    IN  CHOOSE t \in times : \A u \in times : t <= u

\* Key a enters the table before key b: first seen earlier in the draws, or
\* seen while b is only filled in afterwards, or both filled in and a < b.
InsertedBefore(occ, a, b) ==
    IF Seen(occ, a)
    THEN ~Seen(occ, b) \/ FirstSeen(occ, a) < FirstSeen(occ, b)
    ELSE ~Seen(occ, b) /\ int(a) < int(b)

\* Counts never increase along m, and neighbours of equal count stand in
\* insertion order (both relations are transitive).
StableDescending(m, occ) ==
    \A j \in 1..(Len(m) - 1) :
        /\ m[j][2] >= m[j + 1][2]
        /\ m[j][2] = m[j + 1][2] => InsertedBefore(occ, m[j][1], m[j + 1][1])

\* C6: every emitted frequency mapping is ordered by non-increasing count,
\* and keys of equal count keep the order in which they were first inserted
\* (first seen in the draws, then the ascending default fill).
C6_StableDescendingSort ==
    Done => /\ StableDescending(Result.frequency, OccFrequency)
            /\ StableDescending(Result.specialBallFrequency, OccSpecial)
            /\ StableDescending(Result.frequencyAtPosition["5"], OccSpecial)
            /\ \A p \in 0..4 :
                  StableDescending(Result.frequencyAtPosition[str(p)], OccPosition(p))

C6_Witness ==
    /\ Done
    /\ Result.frequency # frequency
    /\ \E j \in 1..(Len(Result.frequency) - 1) :
          /\ Result.frequency[j][2] = Result.frequency[j + 1][2]
          /\ Result.frequency[j][2] > 0
          /\ int(Result.frequency[j][1]) > int(Result.frequency[j + 1][1])

\* C7: a record is tabulated (tables and historical combinations) exactly
\* when it has 5 numbers and a non-null special number; any other record is
\* skipped, the step being possible and changing no table; totalDraws is the
\* number of records minus the number of skipped ones.
C7_SkipOrCount ==
    /\ [](/\ (pc = "tabulate" /\ next_draw <= Len(draws) /\ ~Counted(draws[next_draw]))
                => ENABLED SkipDraw
          /\ Done => /\ draws_with_missing_data =
                            Cardinality((1..Len(draws)) \ CountedIndexes)
                     /\ Result.totalDraws = Len(draws) - draws_with_missing_data)
    /\ [][(pc = "tabulate" /\ next_draw <= Len(draws)) =>
            IF Counted(draws[next_draw])
            THEN /\ SumValues(frequency') = SumValues(frequency) + 5
                 /\ frequency_at_position' # frequency_at_position
                 /\ \E c \in existing_combinations' : c[6] = Val(draws[next_draw].specialBall)
                 /\ draws_with_missing_data' = draws_with_missing_data
            ELSE /\ UNCHANGED tables
                 /\ draws_with_missing_data' = draws_with_missing_data + 1]_vars

C7_Witness ==
    /\ Done
    /\ draws_with_missing_data = 2
    /\ Result.totalDraws = 1
    /\ \E j \in 1..Len(draws) : Len(draws[j].numbers) # 5
    /\ \E j \in 1..Len(draws) : IsNone(draws[j].specialBall)

Occurrences(xs, x) == Cardinality({j \in 1..Len(xs) : xs[j] = x})

\* c is the normalized combination of draw: the draw's five numbers in
\* ascending order, then its special number.
NormalizedFrom(c, draw) ==
    /\ Len(c) = 6
    /\ c[6] = Val(draw.specialBall)
    /\ \A j \in 1..4 : c[j] <= c[j + 1]
    /\ \A x \in ListSet(SubSeq(c, 1, 5)) \cup ListSet(draw.numbers) :
          Occurrences(SubSeq(c, 1, 5), x) = Occurrences(draw.numbers, x)

\* C8: historicalCombinations holds exactly the normalized combinations of
\* the counted draws, one entry per distinct combination whatever the dates
\* and the order of the numbers, while every counted draw is in totalDraws
\* and in the frequency table.
C8_OneEntryPerCombination ==
    Done => /\ \A c \in existing_combinations :
                  \E j \in CountedIndexes : NormalizedFrom(c, draws[j])
            /\ \A j \in CountedIndexes :
                  Cardinality({c \in existing_combinations : NormalizedFrom(c, draws[j])}) = 1
            /\ Result.totalDraws = Cardinality(CountedIndexes)
            /\ SumValues(Result.frequency) = 5 * Cardinality(CountedIndexes)

C8_Witness ==
    /\ Done
    /\ Cardinality(existing_combinations) = 1
    /\ Result.totalDraws = 2
    /\ draws[1].numbers # draws[2].numbers
    /\ draws[1].date # draws[2].date

\* C9: optimizedByPosition has exactly 6 integers, the first 5 strictly
\* ascending, for every draw list.
C9_ByPositionDistinct ==
    Done => /\ Len(Result.optimizedByPosition) = 6
            /\ StrictlyAscending(SubSeq(Result.optimizedByPosition, 1, 5))

\* C10: with max_regular >= 5 the candidate of the general-frequency search
\* is 5 strictly ascending integers after any number of replacement
\* attempts, and optimizedByGeneralFrequency is these followed by one more
\* integer.
C10_ByGeneralFrequencyDistinct ==
    /\ (pc \in {"search_general", "sort", "done"} /\ max_regular >= 5) =>
          /\ Len(optimized_regular) = 5
          /\ \A j \in 1..5 : optimized_regular[j] \in Int
          /\ StrictlyAscending(optimized_regular)
    /\ (Done /\ max_regular >= 5) =>
          /\ Len(Result.optimizedByGeneralFrequency) = 6
          /\ Result.optimizedByGeneralFrequency[6] \in Int
          /\ SubSeq(Result.optimizedByGeneralFrequency, 1, 5) = optimized_regular

C10_Witness ==
    /\ Done
    /\ attemptsB >= 3
    /\ attemptsB < max_attempts
    /\ max_regular >= 5

\* The five regular numbers of a 6-tuple.
Regular(c) == SubSeq(c, 1, 5)

\* xs and ys hold the same numbers the same number of times.
SameNumbers(xs, ys) ==
    \A x \in ListSet(xs) \cup ListSet(ys) : Occurrences(xs, x) = Occurrences(ys, x)

\* Some counted draw has exactly the regular numbers xs, in any order.
RegularsDrawn(xs) == \E j \in CountedIndexes : SameNumbers(xs, draws[j].numbers)

\* Some counted draw has the normalized combination c.
CombinationDrawn(c) == \E j \in CountedIndexes : NormalizedFrom(c, draws[j])

\* C11: the 6-tuple returned by the position search is the normalized
\* combination of no counted draw, unless the search used all its 100
\* attempts.
C11_ByPositionAbsent ==
    Done => \/ ~CombinationDrawn(Result.optimizedByPosition)
            \/ attemptsA = max_attempts

C11_Witness ==
    /\ Done
    /\ attemptsA >= 2
    /\ attemptsA < max_attempts
    /\ ~CombinationDrawn(Result.optimizedByPosition)
    /\ RegularsDrawn(BaselineByPosition)

\* The baseline of the position search with the special number it returns.
BaselineTuple == Sorted(BaselineByPosition) \o <<best_special_ball>>

\* C12 (as stated): whenever the baseline's full 6-tuple is the combination
\* of no counted draw, the position search returns the baseline unchanged.
C12_FullTupleDecides ==
    Done => (~CombinationDrawn(BaselineTuple) =>
                /\ Result.optimizedByPosition = BaselineTuple
                /\ attemptsA = 0)

\* C12 (amended): the position search decides on the 5 regular numbers
\* alone: it returns the baseline unchanged exactly when no counted draw has
\* the baseline's 5 regular numbers, and perturbs it when one has, whatever
\* the special number of that draw.
C12_RegularNumbersDecide ==
    Done => /\ ~RegularsDrawn(BaselineByPosition) =>
                  /\ Result.optimizedByPosition = BaselineTuple
                  /\ attemptsA = 0
            /\ RegularsDrawn(BaselineByPosition) => attemptsA >= 1

C12_Witness ==
    /\ Done
    /\ RegularsDrawn(BaselineByPosition)
    /\ ~CombinationDrawn(BaselineTuple)
    /\ attemptsA >= 1
    /\ Result.optimizedByPosition # BaselineTuple

\* C13: the 5 regular numbers returned by the general-frequency search are
\* the regular numbers of no counted draw, whatever the special numbers,
\* unless the search used all its 100 attempts.
C13_ByGeneralFrequencyAbsent ==
    Done => \/ ~RegularsDrawn(Regular(Result.optimizedByGeneralFrequency))
            \/ attemptsB = max_attempts

C13_Witness ==
    /\ Done
    /\ attemptsB >= 1
    /\ attemptsB < max_attempts
    /\ ~RegularsDrawn(Regular(Result.optimizedByGeneralFrequency))
    /\ ~CombinationDrawn(Result.optimizedByGeneralFrequency)
    /\ \E j \in CountedIndexes :
          Val(draws[j].specialBall) # Result.optimizedByGeneralFrequency[6]

\* The single draw that uses all 5 numbers of the boundary variant.
BoundaryCase ==
    /\ max_regular = 5
    /\ Len(draws) = 1
    /\ Counted(draws[1])
    /\ ListSet(draws[1].numbers) = 1..5

\* C14: with at least 5 numbers in the frequency table the general-frequency
\* search ends: it makes at most 100 passes of its loop, each pass counts
\* itself and runs to its end (no inner loop goes on for ever); with
\* max_regular = 5 and a single draw of all 5 numbers it returns a 6-tuple.
C14_ByGeneralFrequencyTerminates ==
    /\ [](attemptsB <= max_attempts)
    /\ []((pc = "search_general" /\ Len(frequency) >= 5) => PassEnds(attemptsB))
    /\ [][StepByGeneralFrequency => attemptsB' = attemptsB + 1]_vars
    /\ []((Done /\ BoundaryCase) => Len(Result.optimizedByGeneralFrequency) = 6)

C14_Witness ==
    /\ Done
    /\ BoundaryCase
    /\ attemptsB = max_attempts
    /\ Len(Result.optimizedByGeneralFrequency) = 6

\* C15: the position search makes at most 100 attempts, each attempt counting
\* itself, and returns a 6-tuple of integers for every history; when all 100
\* attempts are used without reaching an absent candidate it returns the last
\* candidate produced, sorted, with the special number.
C15_ByPositionBounded ==
    /\ [](attemptsA <= max_attempts)
    /\ [][StepByPosition => attemptsA' = attemptsA + 1]_vars
    /\ [](pc \in {"general", "search_general", "sort", "done"} =>
              /\ Len(Val(optimized_by_position)) = 6
              /\ \A j \in 1..6 : Val(optimized_by_position)[j] \in Int
              /\ Regular(Val(optimized_by_position)) = Sorted(optimized))
    /\ [](Done => Result.optimizedByPosition = Val(optimized_by_position))

C15_Witness ==
    /\ Done
    /\ attemptsA = max_attempts
    /\ Len(Result.optimizedByPosition) = 6

\* Every counted draw has its special number in 1..max_special.
SpecialsInRange ==
    \A j \in CountedIndexes : Val(draws[j].specialBall) \in 1..max_special

\* The first key of the emitted special-number table, as a number.
FirstRankedSpecial == int(Result.specialBallFrequency[1][1])

\* C17: the 6th element of both results is the first-ranked entry of the
\* special-number table, whose count no other entry exceeds and which was
\* inserted before every entry of the same count; no attempt of either search
\* changes the special-number table, from which alone the special number is
\* taken, or a result already returned; both results have the same
\* 6th element; it is in 1..max_special when the special numbers of the
\* counted draws are.
C17_SpecialNumber ==
    /\ [](Done =>
            /\ Result.optimizedByPosition[6] = FirstRankedSpecial
            /\ Result.optimizedByGeneralFrequency[6] = FirstRankedSpecial
            /\ \A j \in 2..Len(Result.specialBallFrequency) :
                  /\ Result.specialBallFrequency[j][2] <= Result.specialBallFrequency[1][2]
                  /\ Result.specialBallFrequency[j][2] = Result.specialBallFrequency[1][2] =>
                        InsertedBefore(OccSpecial, Result.specialBallFrequency[1][1],
                                       Result.specialBallFrequency[j][1])
            /\ SpecialsInRange => FirstRankedSpecial \in 1..max_special)
    /\ [][(StepByPosition \/ StepByGeneralFrequency) =>
            UNCHANGED <<special_ball_frequency, optimized_by_position>>]_vars

C17_Witness ==
    /\ Done
    /\ attemptsA >= 1
    /\ attemptsB >= 1
    /\ SpecialsInRange
    /\ Result.specialBallFrequency[1][2] = Result.specialBallFrequency[2][2]
    /\ Result.specialBallFrequency[1][2] >= 1
    /\ FirstRankedSpecial > int(Result.specialBallFrequency[2][1])

\* The number ranked next after x in the list xs; None when x is not in the
\* list or is its last number.
NextRanked(xs, x) ==
    IF ListHas(xs, x) /\ ListIndex(xs, x) < Len(xs)
    THEN Some(xs[ListIndex(xs, x) + 1])
    ELSE None

\* The lowest integer of 1..max_regular that is not in the candidate.
LowestUnused(opt) ==
    CHOOSE i \in (1..max_regular) \ ListSet(opt) :
        \A e \in (1..max_regular) \ ListSet(opt) : i <= e

\* The attempt changes the position attemptsA mod 5 only, to the next-ranked
\* number of the position's list or, the list having no further number, to
\* the lowest unused integer.
PerturbsAsStated ==
    LET p == (attemptsA % 5) + 1
        next == NextRanked(Numbers(position_frequencies(p - 1)), optimized[p])
    IN  /\ \A q \in (1..5) \ {p} : optimized'[q] = optimized[q]
        /\ optimized'[p] = IF IsNone(next) THEN LowestUnused(optimized) ELSE Val(next)

\* C18: with max_regular 69 or 70, attempt k of the position search changes
\* position k mod 5 only, to the next-ranked number of that position's list,
\* or to the lowest integer of 1..max_regular not in the candidate when the
\* list is exhausted.
C18_PerturbsOnePosition ==
    [][(StepByPosition /\ max_regular >= 69) => PerturbsAsStated]_vars

\* The overall count of number n.
OverallCount(n) == DictGet(frequency, str(n), 0)

\* The numbers of the overall table, most frequent first.
RankedNumbers == Numbers(IntItems(sort_frequency_dict(frequency)))

\* The index of the member of least overall count, the lowest on ties.
LeastFrequentMember(opt) ==
    CHOOSE i \in 1..Len(opt) :
        /\ \A h \in 1..Len(opt) : OverallCount(opt[i]) <= OverallCount(opt[h])
        /\ \A h \in 1..(i - 1) : OverallCount(opt[h]) > OverallCount(opt[i])

\* Unused numbers remain in the ranked list at the attempt.
UnusedRemain == 5 + attemptsB < Len(RankedNumbers)

\* C19: while unused numbers remain in the ranked list, an attempt of the
\* general-frequency search takes out of the candidate exactly the member of
\* least overall count (the lowest index on ties), puts in the next number
\* of the ranked list, which the candidate did not hold, and keeps the other
\* four members.
C19_ReplacesLeastFrequent ==
    [][(StepByGeneralFrequency /\ UnusedRemain) =>
          LET out == optimized_regular[LeastFrequentMember(optimized_regular)]
              new == RankedNumbers[5 + attemptsB + 1]
          IN  /\ new \notin ListSet(optimized_regular)
              /\ \A k \in 1..(5 + attemptsB) : RankedNumbers[k] # new
              /\ ListSet(optimized_regular') = (ListSet(optimized_regular) \ {out}) \cup {new}
              /\ Len(optimized_regular') = 5
              /\ Cardinality(ListSet(optimized_regular')) = 5]_vars

C19_Witness ==
    /\ pc = "search_general"
    /\ attemptsB = 2
    /\ UnusedRemain
    /\ ListSet(optimized_regular) # ListSet(SubSeq(RankedNumbers, 1, 5))
    /\ \E j \in 1..4 : OverallCount(optimized_regular[j]) = OverallCount(optimized_regular[j + 1])
    /\ CollidesByGeneralFrequency(optimized_regular)

\* The regular numbers of 1..max_regular that the candidate does not hold.
NotInCandidate(opt) == (1..max_regular) \ ListSet(opt)

\* The ranked list is exhausted at the attempt.
ListExhausted == attemptsB >= Len(RankedNumbers) - 5

\* Every counted draw has its regular numbers in 1..max_regular.
RegularsInRange ==
    \A j \in CountedIndexes : ListSet(draws[j].numbers) \subseteq 1..max_regular

\* C20: for draws with numbers in 1..max_regular, an attempt of the
\* general-frequency search made once the ranked list is exhausted puts into
\* the candidate a number of 1..max_regular that it did not hold, and so
\* changes the candidate, whenever there is such a number.
C20_SubstitutesAfterExhaustion ==
    [][(/\ StepByGeneralFrequency
        /\ ListExhausted
        /\ RegularsInRange
        /\ NotInCandidate(optimized_regular) # {}) =>
          /\ optimized_regular' # optimized_regular
          /\ \E n \in NotInCandidate(optimized_regular) : ListHas(optimized_regular', n)]_vars

\* C16: calculate_lottery_stats, once both statistics objects are computed,
\* writes each of them to its file and returns True, whether
\* verify_frequency_stats returned True or False for either of them; the
\* verification only yields a boolean.
C16_VerificationNeverAborts ==
    /\ (call = "powerball" /\ pc = "done") =>
          /\ mm_stats # None
          /\ stats # None
          /\ verify_frequency_stats(Val(mm_stats)) \in BOOLEAN
          /\ verify_frequency_stats(Val(stats)) \in BOOLEAN
    /\ (call = "returned") =>
          /\ returned = Some(TRUE)
          /\ Val(mm_verified) \in BOOLEAN
          /\ Val(pb_verified) \in BOOLEAN
          /\ mm_output = mm_stats
          /\ pb_output = pb_stats
          /\ Val(mm_output).type = "mega-millions"
          /\ Val(pb_output).type = "powerball"
    /\ (call # "returned") => returned = None

C16_Witness ==
    /\ call = "returned"
    /\ mm_verified = Some(FALSE)
    /\ pb_verified = Some(TRUE)
    /\ returned = Some(TRUE)
    /\ pb_output # None
    /\ mm_output # None

\* ------------------------------------------- lottery_scraper.save_to_json

\* The dates of the model in the order of their strings, which for the
\* format %Y-%m-%d is the order of the days.
DateOrder ==
    << "2020-01-01", "2024-01-02", "2024-01-05", "2024-01-09", "2024-01-12",
       "2024-01-16", "2024-01-19", "2024-02-02", "2024-03-01", "2024-04-01",
       "2025-03-22", "2025-03-26", "2025-03-29" >>

DateRank(d) == CHOOSE j \in DOMAIN DateOrder : DateOrder[j] = d

\* {draw.get('date') for draw in existing_draws}
DatesOf(list) == {list[j].date : j \in DOMAIN list}

RECURSIVE DatesFrom(_, _)
DatesFrom(list, r) ==
    IF r = 0 THEN <<>>
    ELSE SelectSeq(list, LAMBDA draw : DateRank(draw.date) = r) \o DatesFrom(list, r - 1)

\* list.sort(key=lambda x: x.get('date', ''), reverse=True): descending by
\* date, draws of one date in the order they had.
SortByDateDesc(list) == DatesFrom(list, Len(DateOrder))

\* Mutant of AppendAbsent: the date of an appended draw is not added to
\* existing_dates.
RECURSIVE AppendAbsentWithoutAdd(_, _, _, _)
AppendAbsentWithoutAdd(existing, dates, added, batch) ==
    IF batch = <<>> THEN [existing_draws |-> existing, new_draws_added |-> added]
    ELSE IF Head(batch).date \notin dates
         THEN AppendAbsentWithoutAdd(Append(existing, Head(batch)), dates, TRUE, Tail(batch))
         ELSE AppendAbsentWithoutAdd(existing, dates, added, Tail(batch))

\* The for loop of save_to_json over the rest of draws.
RECURSIVE AppendAbsent(_, _, _, _)
AppendAbsent(existing, dates, added, batch) ==
    IF batch = <<>> THEN [existing_draws |-> existing, new_draws_added |-> added]
    ELSE IF Head(batch).date \notin dates
         THEN AppendAbsent(Append(existing, Head(batch)),
                           dates \cup {Head(batch).date}, TRUE, Tail(batch))
         ELSE AppendAbsent(existing, dates, added, Tail(batch))

\* save_to_json(draws, filename) on a file that holds the list stored: the
\* list it writes and the value it returns.
save_to_json(stored, batch) ==
    LET looped == AppendAbsent(stored, DatesOf(stored), FALSE, batch)
    IN  [existing_draws |-> SortByDateDesc(looped.existing_draws),
         new_draws_added |-> looped.new_draws_added]

\* Draws as scrape_lottery_numbers builds them: three dates, and two
\* different draws for one of them.
SavePool ==
    { [date |-> "2025-03-22", numbers |-> <<1, 2, 3, 4, 5>>, specialBall |-> Some(1)],
      [date |-> "2025-03-26", numbers |-> <<1, 2, 3, 4, 5>>, specialBall |-> Some(1)],
      [date |-> "2025-03-26", numbers |-> <<6, 7, 8, 9, 10>>, specialBall |-> Some(2)],
      [date |-> "2025-03-29", numbers |-> <<6, 7, 8, 9, 10>>, specialBall |-> Some(2)] }

MaxBatch == 2

Batches == UNION {[1..n -> SavePool] : n \in 0..MaxBatch}

OnePerDate(list) ==
    \A j, k \in DOMAIN list : list[j].date = list[k].date => j = k

\* The files the calls start from: empty, or one draw per date in any order.
StartFiles ==
    {f \in UNION {[1..n -> SavePool] : n \in 0..Cardinality({draw.date : draw \in SavePool})} :
        OnePerDate(f)}

\* calculate_lottery_stats is not being run: no step of it is enabled.
NotCalculating ==
    /\ lottery_type = "mega-millions"
    /\ max_regular = 70
    /\ max_special = 25
    /\ draws = <<>>
    /\ pc = "done"
    /\ next_draw = 1
    /\ frequency = <<>>
    /\ frequency_at_position = [p \in PosKeys |-> <<>>]
    /\ special_ball_frequency = <<>>
    /\ existing_combinations = {}
    /\ draws_with_missing_data = 0
    /\ optimized = <<>>
    /\ attemptsA = 0
    /\ optimized_by_position = None
    /\ optimized_regular = <<>>
    /\ attemptsB = 0
    /\ optimized_by_general_frequency = None
    /\ stats = None
    /\ call = "none"
    /\ NotCalled

SaveInit ==
    /\ existing_draws \in StartFiles
    /\ new_draws = <<>>
    /\ new_draws_added = None
    /\ NotCalculating
    /\ NotRunning

\* One call save_to_json(draws, filename).
SaveToJson ==
    \E batch \in Batches :
        /\ new_draws' = batch
        /\ existing_draws' = save_to_json(existing_draws, batch).existing_draws
        /\ new_draws_added' = Some(save_to_json(existing_draws, batch).new_draws_added)
        /\ UNCHANGED <<vars, driver, runner>>

SaveNext == SaveToJson

SaveSpec == SaveInit /\ [][SaveNext]_scraper

NewestFirst(list) ==
    \A j, k \in DOMAIN list : j < k => DateRank(list[j].date) >= DateRank(list[k].date)

\* Every stored draw is still stored, and is the only draw of its date.
StoredDrawsKept ==
    \A j \in DOMAIN existing_draws :
        /\ \E k \in DOMAIN existing_draws' : existing_draws'[k] = existing_draws[j]
        /\ \A k \in DOMAIN existing_draws' :
               existing_draws'[k].date = existing_draws[j].date
                   => existing_draws'[k] = existing_draws[j]

\* The call was given a draw whose date was not stored before it.
AbsentDateGiven ==
    \E k \in DOMAIN new_draws' : new_draws'[k].date \notin DatesOf(existing_draws)

\* C22: every call of save_to_json on a file that holds one draw per date
\* leaves a list with one draw per date, newest date first; every draw stored
\* before the call is still stored and no other draw of its date is; and the
\* call returns true exactly when it was given a draw of a date that was not
\* stored, in which case the list has grown.
C22_OneDrawPerDateNewestFirst ==
    [][ /\ OnePerDate(existing_draws')
        /\ NewestFirst(existing_draws')
        /\ StoredDrawsKept
        /\ (new_draws_added' = Some(TRUE)) <=> AbsentDateGiven
        /\ (new_draws_added' = Some(TRUE)) <=> (Len(existing_draws') > Len(existing_draws))
        /\ new_draws_added' \in {Some(TRUE), Some(FALSE)} ]_scraper

IsStored(draw) == \E k \in DOMAIN existing_draws : existing_draws[k] = draw

\* A call was given two different draws of one date: the first was appended
\* and is stored with two draws of other dates, the second was not.
C22_Witness ==
    /\ new_draws_added = Some(TRUE)
    /\ Len(new_draws) = 2
    /\ new_draws[1].date = new_draws[2].date
    /\ new_draws[1] # new_draws[2]
    /\ IsStored(new_draws[1])
    /\ ~IsStored(new_draws[2])
    /\ Len(existing_draws) = 3

\* ------------------------------------------------------------ main.main

\* A file as save_to_json leaves it: one draw per date, newest first.
StoredHistory ==
    << [date |-> "2024-01-12", numbers |-> <<7, 1, 3, 4, 5>>, specialBall |-> Some(3)],
       [date |-> "2024-01-05", numbers |-> <<5, 4, 3, 2, 1>>, specialBall |-> Some(2)],
       [date |-> "2024-01-02", numbers |-> <<1, 2, 3, 4, 5>>, specialBall |-> Some(2)] >>

\* The bucket before the run: no blobs, the Mega Millions draws only, both,
\* or a Mega Millions blob that save_to_json has not written (a record with
\* four numbers, not in the order of the dates).
Buckets ==
    { [mm |-> None, pb |-> None, mm_stats |-> None, pb_stats |-> None],
      [mm |-> Some(ShortHistory), pb |-> Some(StoredHistory),
       mm_stats |-> None, pb_stats |-> None],
      [mm |-> Some(StoredHistory), pb |-> None, mm_stats |-> None, pb_stats |-> None],
      [mm |-> Some(StoredHistory), pb |-> Some(StoredHistory),
       mm_stats |-> None, pb_stats |-> None] }

\* A local draws file before the run: absent, or left by an earlier run.
LocalFiles == {None, Some(StoredHistory)}

\* What the page of the current year gives: a draw later than the stored
\* ones and a draw that is stored.
ScrapedPool ==
    { [date |-> "2025-03-26", numbers |-> <<6, 7, 8, 9, 10>>, specialBall |-> Some(2)],
      [date |-> "2024-01-05", numbers |-> <<5, 4, 3, 2, 1>>, specialBall |-> Some(2)] }

MaxScraped == 1

\* The results of scrape_lottery_numbers; None and [] are both <<>>.
ScrapedLists == UNION {[1..n -> ScrapedPool] : n \in 0..MaxScraped}

\* The creation of an empty file where none exists.
CreateIfMissing(file) == IF file = None THEN Some(<<>>) ELSE file

\* One round of the for loop of download_from_gcs.
DownloadOne(blob, file) == IF blob # None THEN blob ELSE CreateIfMissing(file)

\* download_from_gcs when done of its two files are handled before an
\* exception (2: no exception); the handler creates the files that are missing.
download_from_gcs(done) ==
    [mm |-> CreateIfMissing(IF done >= 1 THEN DownloadOne(bucket.mm, mm_file) ELSE mm_file),
     pb |-> CreateIfMissing(IF done >= 2 THEN DownloadOne(bucket.pb, pb_file) ELSE pb_file)]

\* One round of the for loop of upload_to_gcs.
UploadOne(blob, file) == IF file = None THEN blob ELSE file

\* upload_to_gcs when done of its four files are handled before an
\* exception (4: no exception).
upload_to_gcs(done) ==
    [mm |-> IF done >= 1 THEN UploadOne(bucket.mm, mm_file) ELSE bucket.mm,
     pb |-> IF done >= 2 THEN UploadOne(bucket.pb, pb_file) ELSE bucket.pb,
     mm_stats |-> IF done >= 3 THEN UploadOne(bucket.mm_stats, mm_output)
                  ELSE bucket.mm_stats,
     pb_stats |-> IF done >= 4 THEN UploadOne(bucket.pb_stats, pb_output)
                  ELSE bucket.pb_stats]

\* get_latest_draws for one file: the date of the newest draw, or None.
LatestDate(file) ==
    IF file = None \/ Val(file) = <<>> THEN None
    ELSE Some(SortByDateDesc(Val(file))[1].date)

\* filter_lottery_data(data, start_date)
filter_lottery_data(data, start_date) ==
    IF start_date = None THEN data
    ELSE SortByDateDesc(SelectSeq(data,
             LAMBDA draw : DateRank(draw.date) > DateRank(Val(start_date))))

\* scrape_lottery_data for one game: the default start date, the filter and
\* save_to_json; the file after it and whether a draw was added.
ScrapeGame(file, scraped) ==
    LET latest == IF LatestDate(file) = None THEN Some("2020-01-01") ELSE LatestDate(file)
        filtered == IF scraped = <<>> THEN <<>> ELSE filter_lottery_data(scraped, latest)
        saved == save_to_json(Val(file), filtered)
    IN  IF filtered = <<>>
        THEN [file |-> file, added |-> FALSE]
        ELSE [file |-> Some(saved.existing_draws), added |-> saved.new_draws_added]

\* calculate_lottery_stats reads the two files and enters
\* calculate_stats_for_type for Mega Millions.
ReadAndCalculate(mm, pb) ==
    /\ call' = "mega-millions"
    /\ draws' = Val(mm)
    /\ pb_draws' = Val(pb)
    /\ lottery_type' = "mega-millions"
    /\ max_regular' = 70
    /\ max_special' = 25
    /\ pc' = "tabulate"
    /\ next_draw' = 1
    /\ frequency' = <<>>
    /\ frequency_at_position' = [p \in PosKeys |-> <<>>]
    /\ special_ball_frequency' = <<>>
    /\ existing_combinations' = {}
    /\ draws_with_missing_data' = 0
    /\ optimized' = <<>>
    /\ attemptsA' = 0
    /\ optimized_by_position' = None
    /\ optimized_regular' = <<>>
    /\ attemptsB' = 0
    /\ optimized_by_general_frequency' = None
    /\ stats' = None
    /\ mm_stats' = None
    /\ pb_stats' = None
    /\ mm_verified' = None
    /\ pb_verified' = None
    /\ returned' = None
    /\ UNCHANGED <<mm_output, pb_output>>

MainInit ==
    /\ main_pc = "download"
    /\ bucket \in Buckets
    /\ mm_file \in LocalFiles
    /\ pb_file \in LocalFiles
    /\ latest_draws = None
    /\ raised = None
    /\ NotCalculating
    /\ NotSaving

\* Lines 21-31: download_from_gcs catches its own exceptions and creates the
\* files that are missing; the handler of main would create the same files.
Download ==
    /\ main_pc = "download"
    /\ \E done \in 0..2 :
         /\ mm_file' = download_from_gcs(done).mm
         /\ pb_file' = download_from_gcs(done).pb
    /\ main_pc' = "get_latest_draws"
    /\ UNCHANGED <<vars, driver, scraper, bucket, latest_draws, raised>>

\* Lines 34-36.
GetLatestDraws ==
    /\ main_pc = "get_latest_draws"
    /\ latest_draws' = Some(("powerball" :> LatestDate(pb_file))
                            @@ ("mega-millions" :> LatestDate(mm_file)))
    /\ main_pc' = "scrape"
    /\ UNCHANGED <<vars, driver, scraper, bucket, mm_file, pb_file, raised>>

\* Line 44, scrape_lottery_data up to update_statistics: the files are
\* downloaded again, the new draws of both games are saved, and
\* calculate_lottery_stats is entered if a draw was added.
ScrapeAndSave ==
    /\ main_pc = "scrape"
    /\ \E done \in 0..2, powerball_draws \in ScrapedLists, megamillions_draws \in ScrapedLists :
         LET pb == ScrapeGame(download_from_gcs(done).pb, powerball_draws)
             mm == ScrapeGame(download_from_gcs(done).mm, megamillions_draws)
         IN  /\ pb_file' = pb.file
             /\ mm_file' = mm.file
             /\ IF pb.added \/ mm.added
                THEN ReadAndCalculate(mm.file, pb.file)
                ELSE UNCHANGED <<vars, driver>>
    /\ main_pc' = "update_statistics"
    /\ UNCHANGED <<scraper, bucket, latest_draws, raised>>

\* The rest of scrape_lottery_data: update_statistics has returned or was
\* not called, and upload_to_gcs, which catches its own exceptions, is called.
ScrapeUpload ==
    /\ main_pc = "update_statistics"
    /\ call \in {"none", "returned"}
    /\ \E done \in 0..4 : bucket' = upload_to_gcs(done)
    /\ main_pc' = "calculate"
    /\ UNCHANGED <<vars, driver, scraper, mm_file, pb_file, latest_draws, raised>>

\* Line 48, the call calculate_lottery_stats().
CallCalculate ==
    /\ main_pc = "calculate"
    /\ ReadAndCalculate(mm_file, pb_file)
    /\ main_pc' = "unpack"
    /\ UNCHANGED <<scraper, bucket, mm_file, pb_file, latest_draws, raised>>

\* Line 48, mm_stats, pb_stats = <the returned value>: a bool cannot be
\* unpacked, the TypeError is not in a try block and leaves main.
Unpack ==
    /\ main_pc = "unpack"
    /\ call = "returned"
    /\ IF Val(returned) \in BOOLEAN
       THEN /\ raised' = Some("TypeError")
            /\ main_pc' = "raised"
       ELSE /\ raised' = None
            /\ main_pc' = "write_stats"
    /\ UNCHANGED <<vars, driver, scraper, bucket, mm_file, pb_file, latest_draws>>

\* The steps of main up to the end of line 48; no step leaves line 48 for
\* the lines 50-63.
MainNext ==
    \/ Download
    \/ GetLatestDraws
    \/ ScrapeAndSave
    \/ ScrapeUpload
    \/ CallCalculate
    \/ Unpack
    \/ SkipDraw
    \/ CountDraw
    \/ FillDefaults
    \/ StartByPosition
    \/ StepByPosition
    \/ ReturnByPosition
    \/ StartByGeneralFrequency
    \/ StepByGeneralFrequency
    \/ ReturnByGeneralFrequency
    \/ Assemble
    \/ CallPowerball
    \/ VerifyAndSave

MainSpec == MainInit /\ [][MainNext]_<<vars, driver, runner>>

\* C21: a run of main() is not ended by an exception: once
\* calculate_lottery_stats has returned at line 48, main goes on to write the
\* two statistics files from the returned value, to call upload_to_gcs and
\* to its completion message.
C21_RunReachesCompletion == raised = None

=============================================================================
